---- MODULE Spec2Model ----
(***************************************************************************)
(* Task Timer Manager (src/task_manager.py): the Task record with its      *)
(* timer, the TaskManager collection with its JSON snapshot, and the menu  *)
(* actions that drive them.                                                *)
(*                                                                         *)
(* Time.  time.time() is the variable now, in seconds.  The clock advances *)
(* in steps of one hour (TickSeconds), so that elapsed / 3600.0 is exact   *)
(* in integers; hours (actual_hours, session_time, estimated_hours) are    *)
(* integers.  Floating-point rounding is not modelled.                     *)
(* datetime.now().isoformat() is IsoFormat(now).                           *)
(*                                                                         *)
(* Optional values: None is <<>> and a present value v is <<v>>.           *)
(***************************************************************************)
EXTENDS Integers, Sequences, FiniteSets, TLC

\* ---------------------------------------------------------------- bounds
MaxTasks == 2      \* records in the store at once
MaxFaults == 1     \* snapshot writes that fail in a behaviour
MaxSteps == 4      \* steps (operations and clock ticks) of a behaviour

\* ------------------------------------------------------- program constants
SecondsPerHour == 3600

TickSeconds == SecondsPerHour
StartClock  == SecondsPerHour

None == <<>>
Some(v) == <<v>>

valid_statuses == {"Not Started", "In Progress", "Completed", "On Hold"}

VARIABLES
    tasks,      \* TaskManager.tasks: the sequence of Task records
    disk,       \* the data file: [kind, data]
    now,        \* the wall clock, in seconds
    ids,        \* number of ids _generate_id has handed out
    last,       \* the call that produced this state and what it returned
    pair,       \* the open start()/stop() pair, when nothing came between
    saved,      \* per record, the hours on the clock at the last good save
    faults,     \* snapshot writes that have failed so far
    steps       \* steps taken so far

vars == <<tasks, disk, now, ids, last, pair, saved, faults, steps>>

\* ------------------------------------------------------------------ Task
IsoFormat(t) == <<"iso", t>>

\* _generate_id: a microsecond timestamp, distinct for every construction.
_generate_id(n) == <<"task", n>>

\* Task.__init__
Task(id, title, description, project, category, estimated_hours, deadline, clk) ==
    [ id               |-> id,
      title            |-> title,
      description      |-> description,
      project          |-> project,
      category         |-> category,
      estimated_hours  |-> estimated_hours,
      actual_hours     |-> 0,
      deadline         |-> deadline,
      created_at       |-> IsoFormat(clk),
      updated_at       |-> IsoFormat(clk),
      status           |-> "Not Started",
      completed_at     |-> None,
      timer_start_time |-> None,
      timer_running    |-> FALSE,
      session_time     |-> 0 ]

\* Python truthiness of self.timer_start_time: None and 0 are false.
Truthy(opt) == opt # None /\ opt[1] # 0

\* elapsed_time / 3600.0
ToHours(seconds) == seconds \div SecondsPerHour

\* add_time that also books the hours to the session
add_time_counts_session(t, hours, clk) ==
    IF hours > 0
    THEN [t EXCEPT !.actual_hours = @ + hours, !.session_time = @ + hours,
                   !.updated_at = IsoFormat(clk)]
    ELSE t

\* add_time with the guard hours >= 0
add_time_accepts_zero(t, hours, clk) ==
    IF hours >= 0
    THEN [t EXCEPT !.actual_hours = @ + hours, !.updated_at = IsoFormat(clk)]
    ELSE t

add_time(t, hours, clk) ==
    IF hours > 0
    THEN [t EXCEPT !.actual_hours = @ + hours, !.updated_at = IsoFormat(clk)]
    ELSE t

\* start_timer with the guard misplaced: a running record is stamped again
start_timer_restamps(t, clk) ==
    IF ~t.timer_running
    THEN [task |-> [t EXCEPT !.timer_start_time = Some(clk),
                             !.timer_running = TRUE,
                             !.updated_at = IsoFormat(clk)],
          ret |-> TRUE]
    ELSE [task |-> [t EXCEPT !.updated_at = IsoFormat(clk)], ret |-> FALSE]

start_timer(t, clk) ==
    IF ~t.timer_running
    THEN [task |-> [t EXCEPT !.timer_start_time = Some(clk),
                             !.timer_running = TRUE,
                             !.updated_at = IsoFormat(clk)],
          ret |-> TRUE]
    ELSE [task |-> t, ret |-> FALSE]

\* stop_timer with actual_hours = elapsed_hours in place of +=
stop_timer_overwrites(t, clk) ==
    IF t.timer_running /\ Truthy(t.timer_start_time)
    THEN LET elapsed_hours == ToHours(clk - t.timer_start_time[1])
         IN  [task |-> [t EXCEPT !.session_time = @ + elapsed_hours,
                                 !.actual_hours = elapsed_hours,
                                 !.timer_running = FALSE,
                                 !.timer_start_time = None,
                                 !.updated_at = IsoFormat(clk)],
              ret |-> elapsed_hours]
    ELSE [task |-> t, ret |-> 0]

\* stop_timer without the line actual_hours += elapsed_hours
stop_timer_session_only(t, clk) ==
    IF t.timer_running /\ Truthy(t.timer_start_time)
    THEN LET elapsed_hours == ToHours(clk - t.timer_start_time[1])
         IN  [task |-> [t EXCEPT !.session_time = @ + elapsed_hours,
                                 !.timer_running = FALSE,
                                 !.timer_start_time = None,
                                 !.updated_at = IsoFormat(clk)],
              ret |-> elapsed_hours]
    ELSE [task |-> t, ret |-> 0]

stop_timer(t, clk) ==
    IF t.timer_running /\ Truthy(t.timer_start_time)
    THEN LET elapsed_hours == ToHours(clk - t.timer_start_time[1])
         IN  [task |-> [t EXCEPT !.session_time = @ + elapsed_hours,
                                 !.actual_hours = @ + elapsed_hours,
                                 !.timer_running = FALSE,
                                 !.timer_start_time = None,
                                 !.updated_at = IsoFormat(clk)],
              ret |-> elapsed_hours]
    ELSE [task |-> t, ret |-> 0]

restart_timer(t, clk) ==
    LET stopped == stop_timer(t, clk)
        started == start_timer(stopped.task, clk)
    IN  [task |-> started.task, ret |-> stopped.ret]

get_current_session_time(t, clk) ==
    IF t.timer_running /\ Truthy(t.timer_start_time)
    THEN t.session_time + ToHours(clk - t.timer_start_time[1])
    ELSE t.session_time

get_total_time(t, clk) ==
    IF t.timer_running /\ Truthy(t.timer_start_time)
    THEN t.actual_hours + ToHours(clk - t.timer_start_time[1])
    ELSE t.actual_hours

update_status(t, status, clk) ==
    IF status \in valid_statuses
    THEN [t EXCEPT !.status = status,
                   !.updated_at = IsoFormat(clk),
                   !.completed_at = IF status = "Completed" THEN Some(IsoFormat(clk)) ELSE @]
    ELSE t

\* datetime.fromisoformat(deadline) on the clock of the model, for the dates
\* typed at the menu: the first falls two hours after the clock's origin, the
\* second beyond every behaviour.
fromisoformat(date) ==
    IF date = "2026-01-01" THEN 2 * SecondsPerHour ELSE 1000 * SecondsPerHour

is_overdue(t, clk) ==
    IF t.deadline = None \/ t.status = "Completed"
    THEN FALSE
    ELSE clk > fromisoformat(t.deadline[1])

\* A float quotient x / y * 100 is kept exact as the fraction num / den.
Percent(x, y) == [num |-> x * 100, den |-> y]

\* get_progress_percentage without min(100.0, ...)
get_progress_percentage_uncapped(t, clk) ==
    IF t.estimated_hours = 0
    THEN Percent(0, 1)
    ELSE Percent(get_total_time(t, clk), t.estimated_hours)

\* min(100.0, total_time / estimated_hours * 100)
get_progress_percentage(t, clk) ==
    IF t.estimated_hours = 0
    THEN Percent(0, 1)
    ELSE LET total_time == get_total_time(t, clk)
             p == Percent(total_time, t.estimated_hours)
         IN  IF (p.den > 0 /\ p.num > 100 * p.den) \/ (p.den < 0 /\ p.num < 100 * p.den)
             THEN Percent(1, 1)
             ELSE p

\* to_dict: the fourteen keys written to the snapshot (no timer_start_time).
to_dict(t) ==
    [ id              |-> t.id,
      title           |-> t.title,
      description     |-> t.description,
      project         |-> t.project,
      category        |-> t.category,
      estimated_hours |-> t.estimated_hours,
      actual_hours    |-> t.actual_hours,
      deadline        |-> t.deadline,
      created_at      |-> t.created_at,
      updated_at      |-> t.updated_at,
      status          |-> t.status,
      completed_at    |-> t.completed_at,
      timer_running   |-> t.timer_running,
      session_time    |-> t.session_time ]

\* data.get(key, default)
Get(data, key, default) == IF key \in DOMAIN data THEN data[key] ELSE default

\* data['title'] and data['id'] raise KeyError when the key is missing.
HasRequiredKeys(data) == "title" \in DOMAIN data /\ "id" \in DOMAIN data

\* from_dict without the line that restores session_time
from_dict_no_session_time(data, clk) ==
    LET task == Task(None, data["title"],
                     Get(data, "description", ""),
                     Get(data, "project", "General"),
                     Get(data, "category", "General"),
                     Get(data, "estimated_hours", 0),
                     Get(data, "deadline", None),
                     clk)
    IN  [task EXCEPT !.id = data["id"],
                     !.actual_hours = Get(data, "actual_hours", 0),
                     !.created_at = Get(data, "created_at", IsoFormat(clk)),
                     !.updated_at = Get(data, "updated_at", IsoFormat(clk)),
                     !.status = Get(data, "status", "Not Started"),
                     !.completed_at = Get(data, "completed_at", None),
                     !.timer_running = Get(data, "timer_running", FALSE),
                     !.timer_start_time = None]

\* from_dict without the line that restores completed_at
from_dict_no_completed_at(data, clk) ==
    LET task == Task(None, data["title"],
                     Get(data, "description", ""),
                     Get(data, "project", "General"),
                     Get(data, "category", "General"),
                     Get(data, "estimated_hours", 0),
                     Get(data, "deadline", None),
                     clk)
    IN  [task EXCEPT !.id = data["id"],
                     !.actual_hours = Get(data, "actual_hours", 0),
                     !.created_at = Get(data, "created_at", IsoFormat(clk)),
                     !.updated_at = Get(data, "updated_at", IsoFormat(clk)),
                     !.status = Get(data, "status", "Not Started"),
                     !.timer_running = Get(data, "timer_running", FALSE),
                     !.session_time = Get(data, "session_time", 0),
                     !.timer_start_time = None]

\* The constructor's own generated id is overwritten by data['id'] before the
\* record is visible, so it is built with no id here.
from_dict(data, clk) ==
    LET task == Task(None, data["title"],
                     Get(data, "description", ""),
                     Get(data, "project", "General"),
                     Get(data, "category", "General"),
                     Get(data, "estimated_hours", 0),
                     Get(data, "deadline", None),
                     clk)
    IN  [task EXCEPT !.id = data["id"],
                     !.actual_hours = Get(data, "actual_hours", 0),
                     !.created_at = Get(data, "created_at", IsoFormat(clk)),
                     !.updated_at = Get(data, "updated_at", IsoFormat(clk)),
                     !.status = Get(data, "status", "Not Started"),
                     !.completed_at = Get(data, "completed_at", None),
                     !.timer_running = Get(data, "timer_running", FALSE),
                     !.session_time = Get(data, "session_time", 0),
                     !.timer_start_time = None]

\* ----------------------------------------------------------- TaskManager
AbsentFile == [kind |-> "absent", data |-> <<>>]

Serialize(ts) == [i \in 1..Len(ts) |-> to_dict(ts[i])]

\* save_tasks: open(file, 'w') and json.dump.  outcome "ok" writes the snapshot;
\* "fail" is open() raising, which is caught and printed and leaves the file
\* as it was.  (A dump that raises after open() truncated the file is not
\* modelled.)
WriteOutcomes == {"ok", "fail"}

save_tasks(ts, d, outcome) ==
    IF outcome = "ok" THEN [kind |-> "json", data |-> Serialize(ts)] ELSE d

\* What reading the data file raises inside load_tasks.  kind "json" is a JSON
\* list of objects, "corrupt" is text json.load cannot parse, "not_list" is
\* JSON whose top level is not a list of objects (a number, null, an object
\* with keys, a list of numbers) and "unreadable" is a path that exists but
\* that open() cannot read.
LoadError(d) ==
    CASE d.kind = "absent" -> "none"
      [] d.kind = "unreadable" -> "OSError"
      [] d.kind = "corrupt" -> "JSONDecodeError"
      [] d.kind = "not_list" -> "TypeError"
      [] d.kind = "json" ->
            IF \A i \in 1..Len(d.data) : HasRequiredKeys(d.data[i])
            THEN "none" ELSE "KeyError"

\* except (json.JSONDecodeError, KeyError)
CaughtErrors == {"JSONDecodeError", "KeyError"}

\* the exception that leaves load_tasks, and with it TaskManager() and main
load_raises(d) == IF LoadError(d) \in CaughtErrors THEN "none" ELSE LoadError(d)

\* load_tasks: no file, or JSONDecodeError / KeyError, give the empty list.
\* (When load_raises(d) is not "none" no store is constructed.)
load_tasks(d, clk) ==
    IF d.kind = "json" /\ LoadError(d) = "none"
    THEN [i \in 1..Len(d.data) |-> from_dict(d.data[i], clk)]
    ELSE <<>>

\* get_task_by_id: index of the first record with the id, 0 for None.
get_task_by_id(ts, task_id) ==
    IF \E i \in 1..Len(ts) : ts[i].id = task_id
    THEN CHOOSE i \in 1..Len(ts) :
            ts[i].id = task_id /\ \A j \in 1..(i - 1) : ts[j].id # task_id
    ELSE 0

\* The names defined by class Task: hasattr finds them on every record.
MethodNames ==
    {"_generate_id", "add_time", "start_timer", "stop_timer", "restart_timer",
     "get_current_session_time", "get_total_time", "update_status", "is_overdue",
     "get_progress_percentage", "to_dict", "from_dict", "__str__"}

\* hasattr(task, key): an attribute of the instance or a name of its class.
hasattr(t, key) == key \in DOMAIN t \/ key \in MethodNames

\* the setattr loop of update_task; setattr with the name of a method gives the
\* instance an attribute of that name.
ApplyKwargs(t, kwargs) ==
    [key \in DOMAIN t \cup {k \in DOMAIN kwargs : hasattr(t, k)} |->
        IF key \in DOMAIN kwargs THEN kwargs[key] ELSE t[key]]

update_task(ts, i, kwargs, clk) ==
    [ts EXCEPT ![i] = [ApplyKwargs(ts[i], kwargs) EXCEPT !.updated_at = IsoFormat(clk)]]

\* del self.tasks[i]
RemoveAt(ts, i) == [j \in 1..(Len(ts) - 1) |-> IF j < i THEN ts[j] ELSE ts[j + 1]]

\* get_running_timers, as the indices of the records it returns, in store order
RECURSIVE RunningFrom(_, _)
RunningFrom(ts, i) ==
    IF i > Len(ts) THEN <<>>
    ELSE (IF ts[i].timer_running THEN <<i>> ELSE <<>>) \o RunningFrom(ts, i + 1)

get_running_timers(ts) == RunningFrom(ts, 1)

\* the loop of stop_all_timers
stop_all_timers(ts, clk) ==
    [i \in 1..Len(ts) |->
        IF ts[i].timer_running THEN stop_timer(ts[i], clk).task ELSE ts[i]]

\* str.lower() on the project names and statuses that occur
Lower(str) ==
    CASE str = "General" -> "general"
      [] str = "Alpha" -> "alpha"
      [] str = "Not Started" -> "not started"
      [] str = "In Progress" -> "in progress"
      [] str = "Completed" -> "completed"
      [] str = "On Hold" -> "on hold"
      [] str = "Done" -> "done"
      [] OTHER -> str

get_tasks_by_project(ts, project) ==
    SelectSeq(ts, LAMBDA t : Lower(t.project) = Lower(project))

get_tasks_by_status(ts, status) ==
    SelectSeq(ts, LAMBDA t : Lower(t.status) = Lower(status))

get_overdue_tasks(ts, clk) == SelectSeq(ts, LAMBDA t : is_overdue(t, clk))

\* the project names that occur, in the order sorted() gives strings (capital
\* letters before small ones)
SortedNames == <<"Alpha", "General", "alpha">>

\* sorted(list(set(task.project for task in self.tasks)))
get_all_projects(ts) ==
    SelectSeq(SortedNames, LAMBDA name : \E i \in 1..Len(ts) : ts[i].project = name)

\* sum(...) over a list of numbers
RECURSIVE sum(_)
sum(xs) == IF xs = <<>> THEN 0 ELSE Head(xs) + sum(Tail(xs))

\* get_statistics summing actual_hours, without the running sessions
get_statistics_stored_hours(ts, clk) ==
    LET total_tasks == Len(ts)
        completed_tasks == Len(get_tasks_by_status(ts, "Completed"))
    IN  [ total_tasks           |-> total_tasks,
          completed_tasks       |-> completed_tasks,
          overdue_tasks         |-> Len(get_overdue_tasks(ts, clk)),
          running_timers        |-> Len(get_running_timers(ts)),
          total_estimated_hours |-> sum([i \in 1..Len(ts) |-> ts[i].estimated_hours]),
          total_actual_hours    |-> sum([i \in 1..Len(ts) |-> ts[i].actual_hours]),
          completion_rate       |-> IF total_tasks > 0
                                    THEN Percent(completed_tasks, total_tasks)
                                    ELSE Percent(0, 1) ]

get_statistics(ts, clk) ==
    LET total_tasks == Len(ts)
        completed_tasks == Len(get_tasks_by_status(ts, "Completed"))
    IN  [ total_tasks           |-> total_tasks,
          completed_tasks       |-> completed_tasks,
          overdue_tasks         |-> Len(get_overdue_tasks(ts, clk)),
          running_timers        |-> Len(get_running_timers(ts)),
          total_estimated_hours |-> sum([i \in 1..Len(ts) |-> ts[i].estimated_hours]),
          total_actual_hours    |-> sum([i \in 1..Len(ts) |-> get_total_time(ts[i], clk)]),
          completion_rate       |-> IF total_tasks > 0
                                    THEN Percent(completed_tasks, total_tasks)
                                    ELSE Percent(0, 1) ]

\* the project breakdown printed by view_statistics: for each project of
\* get_all_projects, in that order, the number of tasks get_tasks_by_project
\* returns and how many of them are Completed
ProjectBreakdown(ts) ==
    LET projects == get_all_projects(ts) IN
    [n \in 1..Len(projects) |->
        LET project_tasks == get_tasks_by_project(ts, projects[n]) IN
        [ project   |-> projects[n],
          count     |-> Len(project_tasks),
          completed |-> Len(SelectSeq(project_tasks, LAMBDA t : t.status = "Completed")) ]]

\* --------------------------------------------------------------- history
\* op: the call; idx: the record it acted on (0: none); ok: a boolean it
\* returned; hours: the hours it returned or was given; wrote: the outcome of
\* its save ("none": no save); arg: the status or keyword arguments given, or
\* what a view printed.
Call(op, idx, ok, hours, wrote) ==
    [op |-> op, idx |-> idx, ok |-> ok, hours |-> hours, wrote |-> wrote, arg |-> ""]

NoPair == [phase |-> "none", idx |-> 0, t0 |-> 0, total0 |-> 0, actual0 |-> 0, session0 |-> 0]

OpenPair(ts, i, clk) ==
    [phase |-> "open", idx |-> i, t0 |-> clk,
     total0 |-> get_total_time(ts[i], clk),
     actual0 |-> ts[i].actual_hours, session0 |-> ts[i].session_time]

ClosePair(i) ==
    IF pair.phase = "open" /\ pair.idx = i THEN [pair EXCEPT !.phase = "closed"] ELSE NoPair

\* what is on the clock for each record when a snapshot is written
ClockAtSave(ts, clk) ==
    [i \in 1..Len(ts) |->
        [total |-> get_total_time(ts[i], clk),
         session |-> get_current_session_time(ts[i], clk)]]

Saved(ts, old, outcome) == IF outcome = "ok" THEN ClockAtSave(ts, now) ELSE old

Fault(outcome) == IF outcome = "ok" THEN 0 ELSE 1

\* a store that puts the records back as they were when the save fails
Store_RollsBack(ts, outcome) ==
    /\ faults + Fault(outcome) <= MaxFaults
    /\ tasks' = IF outcome = "ok" THEN ts ELSE tasks
    /\ disk' = save_tasks(ts, disk, outcome)
    /\ saved' = Saved(ts, saved, outcome)
    /\ faults' = faults + Fault(outcome)

\* self.tasks changes to ts and save_tasks() runs with the given outcome
Store(ts, outcome) ==
    /\ faults + Fault(outcome) <= MaxFaults
    /\ tasks' = ts
    /\ disk' = save_tasks(ts, disk, outcome)
    /\ saved' = Saved(ts, saved, outcome)
    /\ faults' = faults + Fault(outcome)

NoStore == UNCHANGED <<tasks, disk, saved, faults>>

\* ---------------------------------------------------------------- inputs
\* What the user types at add_new_task (an empty title is refused).
NewTaskInputs ==
    << [title |-> "Report", description |-> "", project |-> "General",
        category |-> "General", estimated_hours |-> 0, deadline |-> None],
       [title |-> "Fix", description |-> "urgent", project |-> "Alpha",
        category |-> "Work", estimated_hours |-> 2, deadline |-> Some("2026-01-01")],
       [title |-> "", description |-> "", project |-> "General",
        category |-> "General", estimated_hours |-> 0, deadline |-> None] >>

\* What the user types at the menu's update_task: "" and None keep the field.
EditInputs ==
    << [title |-> "Renamed", description |-> "", project |-> "alpha", category |-> "",
        estimated_hours |-> Some(1), status |-> "Completed", deadline |-> None],
       [title |-> "", description |-> "", project |-> "", category |-> "",
        estimated_hours |-> None, status |-> "Done", deadline |-> Some("2026-02-02")] >>

\* Keyword arguments given to TaskManager.update_task: a field with a value
\* update_status would refuse together with a name no record has, that name
\* together with the name of a method, and the id of the first record.
KwargsChoices(ts) ==
    << [status |-> "Done", priority |-> "high"],
       [priority |-> "high", _generate_id |-> "task_0"],
       [id |-> IF ts = <<>> THEN _generate_id(0) ELSE ts[1].id] >>

HoursInputs == {-1, 0, 1}

StatusInputs == {"In Progress", "Completed", "Done"}

\* an id no record has
MissingId == _generate_id(0)

NewTask(n, inp, clk) ==
    Task(_generate_id(n), inp.title, inp.description, inp.project, inp.category,
         inp.estimated_hours, inp.deadline, clk)

\* The data file found at the first launch: none, the snapshot an earlier run
\* left, whose records were created before this run's clock started, or a
\* file that is not such a snapshot: unparsable text, a record without its
\* title, JSON that is not a list of objects, a file that cannot be read.
InitialFiles ==
    << AbsentFile,
       [kind |-> "json", data |-> Serialize(<<NewTask(1, NewTaskInputs[1], 0)>>)],
       [kind |-> "json", data |-> Serialize(<<NewTask(1, NewTaskInputs[1], 0),
                                              NewTask(2, NewTaskInputs[2], 0)>>)],
       [kind |-> "corrupt", data |-> <<>>],
       [kind |-> "json", data |-> <<[id |-> _generate_id(1)]>>],
       [kind |-> "not_list", data |-> <<>>],
       [kind |-> "unreadable", data |-> <<>>] >>

\* ------------------------------------------------------------------ Init
\* task_manager = TaskManager() in main: an exception that leaves load_tasks
\* ends the program with a traceback before the menu is shown.
Launch(op, d) == IF load_raises(d) = "none" THEN op ELSE "abort"

Init ==
    /\ disk \in {InitialFiles[n] : n \in 1..Len(InitialFiles)}
    /\ now = StartClock
    /\ tasks = load_tasks(disk, now)
    /\ ids = Len(disk.data)
    /\ last = Call(Launch("init", disk), 0, FALSE, 0, "none")
    /\ pair = NoPair
    /\ saved = ClockAtSave(tasks, now)
    /\ faults = 0
    /\ steps = 0

\* every step of a behaviour counts against MaxSteps; a program that ended
\* at its launch takes none
Step ==
    /\ last.op # "abort"
    /\ steps < MaxSteps
    /\ steps' = steps + 1

Tick ==
    /\ Step
    /\ now' = now + TickSeconds
    /\ last' = Call("tick", 0, FALSE, 0, "none")
    /\ pair' = IF pair.phase = "open" THEN pair ELSE NoPair
    /\ UNCHANGED <<tasks, disk, ids, saved, faults>>

\* ---------------------------------------------------------- Task methods
\* called on a record of the store, with no save
TaskStartTimer(i) ==
    /\ Step
    /\ LET r == start_timer(tasks[i], now) IN
       /\ tasks' = [tasks EXCEPT ![i] = r.task]
       /\ last' = Call("start_timer", i, r.ret, 0, "none")
       /\ pair' = IF r.ret THEN OpenPair(tasks, i, now) ELSE NoPair
       /\ UNCHANGED <<disk, now, ids, saved, faults>>

TaskStopTimer(i) ==
    /\ Step
    /\ LET r == stop_timer(tasks[i], now) IN
       /\ tasks' = [tasks EXCEPT ![i] = r.task]
       /\ last' = Call("stop_timer", i, FALSE, r.ret, "none")
       /\ pair' = ClosePair(i)
       /\ UNCHANGED <<disk, now, ids, saved, faults>>

TaskRestartTimer(i) ==
    /\ Step
    /\ LET r == restart_timer(tasks[i], now) IN
       /\ tasks' = [tasks EXCEPT ![i] = r.task]
       /\ last' = Call("restart_timer", i, FALSE, r.ret, "none")
       /\ pair' = NoPair
       /\ UNCHANGED <<disk, now, ids, saved, faults>>

TaskAddTime(i, hours) ==
    /\ Step
    /\ tasks' = [tasks EXCEPT ![i] = add_time(tasks[i], hours, now)]
    /\ last' = Call("add_time", i, FALSE, hours, "none")
    /\ pair' = NoPair
    /\ UNCHANGED <<disk, now, ids, saved, faults>>

TaskUpdateStatus(i, status) ==
    /\ Step
    /\ tasks' = [tasks EXCEPT ![i] = update_status(tasks[i], status, now)]
    /\ last' = [Call("update_status", i, FALSE, 0, "none") EXCEPT !.arg = status]
    /\ pair' = NoPair
    /\ UNCHANGED <<disk, now, ids, saved, faults>>

\* --------------------------------------------------- TaskManager methods
UpdateTask(task_id, kwargs, outcome) ==
    /\ Step
    /\ LET i == get_task_by_id(tasks, task_id) IN
       /\ IF i # 0
          THEN /\ Store(update_task(tasks, i, kwargs, now), outcome)
               /\ last' = [Call("update_task", i, TRUE, 0, outcome) EXCEPT !.arg = kwargs]
          ELSE /\ NoStore
               /\ last' = [Call("update_task", 0, FALSE, 0, "none") EXCEPT !.arg = kwargs]
       /\ pair' = NoPair
       /\ UNCHANGED <<now, ids>>

DeleteTask(task_id, outcome) ==
    /\ Step
    /\ LET i == get_task_by_id(tasks, task_id) IN
       /\ IF i # 0
          THEN /\ Store(RemoveAt(tasks, i), outcome)
               /\ last' = Call("delete_task", i, TRUE, 0, outcome)
          ELSE /\ NoStore
               /\ last' = Call("delete_task", 0, FALSE, 0, "none")
       /\ pair' = NoPair
       /\ UNCHANGED <<now, ids>>

StopAllTimers(outcome) ==
    /\ Step
    /\ Store(stop_all_timers(tasks, now), outcome)
    /\ last' = Call("stop_all_timers", 0, FALSE, 0, outcome)
    /\ pair' = NoPair
    /\ UNCHANGED <<now, ids>>

\* ---------------------------------------------------------- menu actions
\* add_new_task: Task(...) and add_task; an empty title is refused
MenuAddNewTask(inp, outcome) ==
    /\ Step
    /\ Len(tasks) < MaxTasks
    /\ IF inp.title = ""
       THEN /\ NoStore
            /\ last' = Call("menu_add", 0, FALSE, 0, "none")
            /\ UNCHANGED ids
       ELSE /\ ids' = ids + 1
            /\ Store(Append(tasks, NewTask(ids + 1, inp, now)), outcome)
            /\ last' = Call("menu_add", Len(tasks) + 1, TRUE, 0, outcome)
    /\ pair' = NoPair
    /\ UNCHANGED now

\* the field edits of the menu's update_task, in the order of the prompts
EditTask(t, e, clk) ==
    LET t1 == IF e.title # "" THEN [t EXCEPT !.title = e.title] ELSE t
        t2 == IF e.description # "" THEN [t1 EXCEPT !.description = e.description] ELSE t1
        t3 == IF e.project # "" THEN [t2 EXCEPT !.project = e.project] ELSE t2
        t4 == IF e.category # "" THEN [t3 EXCEPT !.category = e.category] ELSE t3
        t5 == IF e.estimated_hours # None
              THEN [t4 EXCEPT !.estimated_hours = e.estimated_hours[1]] ELSE t4
        t6 == IF e.status # "" THEN update_status(t5, e.status, clk) ELSE t5
    IN  IF e.deadline # None THEN [t6 EXCEPT !.deadline = e.deadline] ELSE t6

\* a task number outside 1..len(tasks) prints "Invalid task number."
MenuUpdateTask(i, e, outcome) ==
    /\ Step
    /\ tasks # <<>>
    /\ IF i \in 1..Len(tasks)
       THEN /\ Store([tasks EXCEPT ![i] = EditTask(tasks[i], e, now)], outcome)
            /\ last' = Call("menu_update", i, TRUE, 0, outcome)
       ELSE /\ NoStore
            /\ last' = Call("menu_update", 0, FALSE, 0, "none")
    /\ pair' = NoPair
    /\ UNCHANGED <<now, ids>>

MenuDeleteTask(i, confirm, outcome) ==
    /\ Step
    /\ tasks # <<>>
    /\ IF i \in 1..Len(tasks) /\ confirm
       THEN /\ Store(RemoveAt(tasks, get_task_by_id(tasks, tasks[i].id)), outcome)
            /\ last' = Call("menu_delete", i, TRUE, 0, outcome)
       ELSE /\ NoStore
            /\ last' = Call("menu_delete", 0, FALSE, 0, "none")
    /\ pair' = NoPair
    /\ UNCHANGED <<now, ids>>

\* add_time_to_task without its save_tasks() call
MenuAddTime_NoSave(i, hours, outcome) ==
    /\ Step
    /\ tasks # <<>>
    /\ IF i \in 1..Len(tasks) /\ hours > 0
       THEN /\ tasks' = [tasks EXCEPT ![i] = add_time(tasks[i], hours, now)]
            /\ UNCHANGED <<disk, saved, faults>>
            /\ last' = Call("menu_add_time", i, TRUE, hours, outcome)
       ELSE /\ NoStore
            /\ last' = Call("menu_add_time", 0, FALSE, 0, "none")
    /\ pair' = NoPair
    /\ UNCHANGED <<now, ids>>

MenuAddTime(i, hours, outcome) ==
    /\ Step
    /\ tasks # <<>>
    /\ IF i \in 1..Len(tasks) /\ hours > 0
       THEN /\ Store([tasks EXCEPT ![i] = add_time(tasks[i], hours, now)], outcome)
            /\ last' = Call("menu_add_time", i, TRUE, hours, outcome)
       ELSE /\ NoStore
            /\ last' = Call("menu_add_time", 0, FALSE, 0, "none")
    /\ pair' = NoPair
    /\ UNCHANGED <<now, ids>>

\* start_timer of the menu: with timers running, 'y' stops them all (and
\* saves) and anything else returns; then the chosen task is started and, when
\* start_timer() returned True, the store is saved.
MenuStartTimer(yes, i, outcome1, outcome2) ==
    /\ Step
    /\ tasks # <<>>
    /\ LET running == get_running_timers(tasks)
           stopall == running # <<>> /\ yes
           ts1     == IF stopall THEN stop_all_timers(tasks, now) ELSE tasks
           disk1   == IF stopall THEN save_tasks(ts1, disk, outcome1) ELSE disk
           saved1  == IF stopall THEN Saved(ts1, saved, outcome1) ELSE saved
           wrote1  == IF stopall THEN outcome1 ELSE "none"
           faults1 == IF stopall THEN faults + Fault(outcome1) ELSE faults
           r       == start_timer(ts1[i], now)
           ts2     == [ts1 EXCEPT ![i] = r.task]
       IN  IF running # <<>> /\ ~yes
           THEN /\ NoStore
                /\ last' = Call("menu_start", 0, FALSE, 0, "none")
                /\ pair' = NoPair
           ELSE IF i \in 1..Len(tasks) /\ r.ret
                THEN /\ faults1 + Fault(outcome2) <= MaxFaults
                     /\ tasks' = ts2
                     /\ disk' = save_tasks(ts2, disk1, outcome2)
                     /\ saved' = Saved(ts2, saved1, outcome2)
                     /\ faults' = faults1 + Fault(outcome2)
                     /\ last' = Call("menu_start", i, TRUE, 0, outcome2)
                     /\ pair' = OpenPair(ts1, i, now)
                ELSE /\ faults1 <= MaxFaults
                     /\ tasks' = ts1
                     /\ disk' = disk1
                     /\ saved' = saved1
                     /\ faults' = faults1
                     /\ last' = Call("menu_start", IF i \in 1..Len(tasks) THEN i ELSE 0,
                                     FALSE, 0, wrote1)
                     /\ pair' = NoPair
    /\ UNCHANGED <<now, ids>>

\* stop_timer of the menu: k numbers the running timers
MenuStopTimer(k, outcome) ==
    /\ Step
    /\ LET running == get_running_timers(tasks) IN
       /\ running # <<>>
       /\ IF k \in 1..Len(running)
          THEN LET r == stop_timer(tasks[running[k]], now) IN
               /\ Store([tasks EXCEPT ![running[k]] = r.task], outcome)
               /\ last' = Call("menu_stop", running[k], TRUE, r.ret, outcome)
               /\ pair' = ClosePair(running[k])
          ELSE /\ NoStore
               /\ last' = Call("menu_stop", 0, FALSE, 0, "none")
               /\ pair' = NoPair
       /\ UNCHANGED <<now, ids>>

MenuRestartTimer(k, outcome) ==
    /\ Step
    /\ LET running == get_running_timers(tasks) IN
       /\ running # <<>>
       /\ IF k \in 1..Len(running)
          THEN LET r == restart_timer(tasks[running[k]], now) IN
               /\ Store([tasks EXCEPT ![running[k]] = r.task], outcome)
               /\ last' = Call("menu_restart", running[k], TRUE, r.ret, outcome)
          ELSE /\ NoStore
               /\ last' = Call("menu_restart", 0, FALSE, 0, "none")
       /\ pair' = NoPair
       /\ UNCHANGED <<now, ids>>

\* view_all_tasks prints str(task) for each record: what __str__ computes
Shown(t, clk) ==
    [ overdue  |-> is_overdue(t, clk),
      progress |-> get_progress_percentage(t, clk),
      total    |-> get_total_time(t, clk) ]

ViewAllTasks ==
    /\ Step
    /\ last' = [Call("view_all_tasks", 0, FALSE, 0, "none") EXCEPT
                    !.arg = [i \in 1..Len(tasks) |-> Shown(tasks[i], now)]]
    /\ pair' = NoPair
    /\ UNCHANGED <<tasks, disk, now, ids, saved, faults>>

\* view_statistics prints get_statistics() and the project breakdown
ViewStatistics ==
    /\ Step
    /\ last' = [Call("view_statistics", 0, FALSE, 0, "none") EXCEPT
                    !.arg = [stats |-> get_statistics(tasks, now),
                             breakdown |-> ProjectBreakdown(tasks)]]
    /\ pair' = NoPair
    /\ UNCHANGED <<tasks, disk, now, ids, saved, faults>>

\* choice 15 leaves the loop; the next run constructs TaskManager(), which
\* loads the data file.
ExitAndRelaunch ==
    /\ Step
    /\ tasks' = load_tasks(disk, now)
    /\ last' = Call(Launch("load", disk), 0, FALSE, 0, "none")
    /\ pair' = NoPair
    /\ UNCHANGED <<disk, now, ids, saved, faults>>

\* ------------------------------------------------------------------ Next
Next ==
    \/ Tick
    \/ \E i \in 1..Len(tasks) : TaskStartTimer(i)
    \/ \E i \in 1..Len(tasks) : TaskStopTimer(i)
    \/ \E i \in 1..Len(tasks) : TaskRestartTimer(i)
    \/ \E i \in 1..Len(tasks), h \in HoursInputs : TaskAddTime(i, h)
    \/ \E i \in 1..Len(tasks), st \in StatusInputs : TaskUpdateStatus(i, st)
    \/ \E id \in {tasks[i].id : i \in 1..Len(tasks)} \cup {MissingId},
          k \in 1..Len(KwargsChoices(tasks)), o \in WriteOutcomes :
            tasks # <<>> /\ UpdateTask(id, KwargsChoices(tasks)[k], o)
    \/ \E id \in {tasks[i].id : i \in 1..Len(tasks)} \cup {MissingId}, o \in WriteOutcomes :
            DeleteTask(id, o)
    \/ \E o \in WriteOutcomes : StopAllTimers(o)
    \/ \E n \in 1..Len(NewTaskInputs), o \in WriteOutcomes : MenuAddNewTask(NewTaskInputs[n], o)
    \/ \E i \in 1..Len(tasks), n \in 1..Len(EditInputs), o \in WriteOutcomes :
            MenuUpdateTask(i, EditInputs[n], o)
    \/ \E i \in 1..Len(tasks), o \in WriteOutcomes : MenuDeleteTask(i, TRUE, o)
    \/ \E i \in 1..Len(tasks), h \in HoursInputs, o \in WriteOutcomes : MenuAddTime(i, h, o)
    \/ \E y \in BOOLEAN, i \in 1..(Len(tasks) + 1), o1 \in WriteOutcomes, o2 \in WriteOutcomes :
            MenuStartTimer(y, i, o1, o2)
    \/ \E k \in 1..Len(get_running_timers(tasks)), o \in WriteOutcomes : MenuStopTimer(k, o)
    \/ \E k \in 1..Len(get_running_timers(tasks)), o \in WriteOutcomes : MenuRestartTimer(k, o)
    \/ ViewAllTasks
    \/ ViewStatistics
    \/ ExitAndRelaunch

Spec == Init /\ [][Next]_vars

\* The program as its user drives it: the choices of main's menu only.
MenuNext ==
    \/ Tick
    \/ \E n \in 1..Len(NewTaskInputs), o \in WriteOutcomes : MenuAddNewTask(NewTaskInputs[n], o)
    \/ \E i \in 1..Len(tasks), n \in 1..Len(EditInputs), o \in WriteOutcomes :
            MenuUpdateTask(i, EditInputs[n], o)
    \/ \E i \in 1..Len(tasks), o \in WriteOutcomes : MenuDeleteTask(i, TRUE, o)
    \/ \E i \in 1..Len(tasks), h \in HoursInputs, o \in WriteOutcomes : MenuAddTime(i, h, o)
    \/ \E y \in BOOLEAN, i \in 1..(Len(tasks) + 1), o1 \in WriteOutcomes, o2 \in WriteOutcomes :
            MenuStartTimer(y, i, o1, o2)
    \/ \E k \in 1..Len(get_running_timers(tasks)), o \in WriteOutcomes : MenuStopTimer(k, o)
    \/ \E k \in 1..Len(get_running_timers(tasks)), o \in WriteOutcomes : MenuRestartTimer(k, o)
    \/ ViewAllTasks
    \/ ViewStatistics
    \/ ExitAndRelaunch

MenuSpec == Init /\ [][MenuNext]_vars

\* ================================================================ claims
Records == 1..Len(tasks)

StopOps == {"stop_timer", "menu_stop"}
RestartOps == {"restart_timer", "menu_restart"}
LoadOps == {"init", "load"}

\* the store operations and menu actions that save
MutatingOps ==
    {"update_task", "delete_task", "stop_all_timers", "menu_add", "menu_update",
     "menu_delete", "menu_add_time", "menu_start", "menu_stop", "menu_restart"}

Snapshot(ts) == [kind |-> "json", data |-> Serialize(ts)]

\* C1: when stop() closes a start()/stop() pair on a record that was idle, with
\* nothing but the clock moving in between, it returns the wall-clock delta in
\* hours and sessionTime, actualHours and totalHours() are each their value
\* before start() plus that delta.
C1_StartStopPair ==
    pair.phase = "closed" =>
        LET t == tasks[pair.idx] IN
        /\ last.hours * SecondsPerHour = now - pair.t0
        /\ t.session_time = pair.session0 + last.hours
        /\ t.actual_hours = pair.actual0 + last.hours
        /\ get_total_time(t, now) = pair.total0 + last.hours

C1_Witness ==
    /\ pair.phase = "closed"
    /\ last.op \in StopOps
    /\ last.hours > 0
    /\ pair.actual0 > 0

\* C2: in every reachable state the session start of a record is set exactly
\* when its timer_running is true.
C2_StartSetIffRunning ==
    \A i \in Records : (tasks[i].timer_start_time # None) <=> tasks[i].timer_running

\* C3: after the store is constructed from a snapshot no record has
\* timer_running true.
C3_NoTimerRunsAfterLoad ==
    last.op \in LoadOps => \A i \in Records : ~tasks[i].timer_running

\* C4: a record loaded from a snapshot that was saved while its timer ran has
\* the hours that were on the clock at the save (the running session
\* included) in actualHours and sessionTime.
C4_ElapsedAtSavePreserved ==
    last.op = "load" =>
        \A i \in Records :
            disk.data[i].timer_running =>
                /\ tasks[i].actual_hours = saved[i].total
                /\ tasks[i].session_time = saved[i].session

\* C5: after stop() on a record, whatever its state was, timer_running is
\* false and the session start is cleared.
C5_IdleAfterStop ==
    (last.op \in StopOps /\ last.idx # 0) =>
        /\ ~tasks[last.idx].timer_running
        /\ tasks[last.idx].timer_start_time = None

\* C6: restart() returns what stop() would have returned, leaves sessionTime
\* and actualHours as stop() would have, and leaves the record running with
\* the session start at the present instant.
C6_RestartIsStopThenStart ==
    [][ (last'.op \in RestartOps /\ last'.idx # 0) =>
            LET i == last'.idx
                stopped == stop_timer(tasks[i], now)
            IN  /\ last'.hours = stopped.ret
                /\ tasks'[i].session_time = stopped.task.session_time
                /\ tasks'[i].actual_hours = stopped.task.actual_hours
                /\ tasks'[i].timer_running
                /\ tasks'[i].timer_start_time = Some(now) ]_vars

\* C7: start() on a record whose timer runs returns false, stop() on a record
\* whose timer does not run returns 0, and neither changes any field of any
\* record.
C7_InapplicableTimerCallIsNoOp ==
    [][ /\ (last'.op = "start_timer" /\ tasks[last'.idx].timer_running) =>
                (~last'.ok /\ tasks' = tasks)
        /\ (last'.op = "stop_timer" /\ ~tasks[last'.idx].timer_running) =>
                (last'.hours = 0 /\ tasks' = tasks) ]_vars

C7_Witness ==
    /\ last.op = "start_timer"
    /\ ~last.ok
    /\ Truthy(tasks[last.idx].timer_start_time)
    /\ tasks[last.idx].updated_at # IsoFormat(now)

\* C8: after a store operation or menu action whose write succeeded the data
\* file is the serialization of the records in memory, and one that wrote
\* nothing changed nothing in memory.
C8_WriteThrough ==
    [][ last'.op \in MutatingOps =>
            /\ (last'.wrote = "ok" => disk' = Snapshot(tasks'))
            /\ (last'.wrote = "none" => tasks' = tasks) ]_vars

C8_Witness ==
    /\ last.op = "menu_stop"
    /\ last.wrote = "ok"
    /\ last.hours > 0
    /\ faults > 0
    /\ disk = Snapshot(tasks)

\* the thirteen data fields of a record
DataFields ==
    {"id", "title", "description", "project", "category", "estimated_hours",
     "actual_hours", "deadline", "created_at", "updated_at", "status",
     "completed_at", "session_time"}

SameData(t, u) == \A f \in DataFields : t[f] = u[f]

AllIdle(ts) == \A i \in 1..Len(ts) : ~ts[i].timer_running

\* C9: loading the snapshot of a store whose records are all idle gives the
\* same records in the same order, equal in every data field.
C9_IdleRoundTrip ==
    [][ (last'.op = "load" /\ disk = Snapshot(tasks) /\ AllIdle(tasks)) =>
            /\ Len(tasks') = Len(tasks)
            /\ \A i \in Records : SameData(tasks[i], tasks'[i]) ]_vars

C9_Witness ==
    /\ last.op = "load"
    /\ Len(tasks) = 2
    /\ AllIdle(tasks)
    /\ disk = Snapshot(tasks)
    /\ \E i \in Records : tasks[i].completed_at # None /\ tasks[i].actual_hours > 0

\* C10: no two records of the store share an id.
C10_UniqueIds ==
    \A i \in Records, j \in Records : i # j => tasks[i].id # tasks[j].id

\* C11: after stop_all_timers() returns, get_running_timers() is empty (and
\* the snapshot was written once, by the single save at its end).
C11_NoTimerRunsAfterStopAll ==
    last.op = "stop_all_timers" => get_running_timers(tasks) = <<>>

AddTimeOps == {"add_time", "menu_add_time"}
StartOps == {"start_timer", "menu_start"}

\* C12: add_time(h) with h > 0 adds exactly h to actual_hours and leaves
\* timer_running, timer_start_time and session_time as they were, whether or
\* not the timer runs.
C12_AddTimeFrame ==
    [][ (last'.op \in AddTimeOps /\ last'.idx # 0 /\ last'.hours > 0) =>
            LET i == last'.idx IN
            /\ tasks'[i].actual_hours = tasks[i].actual_hours + last'.hours
            /\ tasks'[i].timer_running = tasks[i].timer_running
            /\ tasks'[i].timer_start_time = tasks[i].timer_start_time
            /\ tasks'[i].session_time = tasks[i].session_time
            /\ get_current_session_time(tasks'[i], now) = get_current_session_time(tasks[i], now) ]_vars

\* add_time(1) on a record whose timer has been running for an hour
C12_Witness ==
    /\ last.op = "add_time"
    /\ last.hours > 0
    /\ tasks[last.idx].timer_running
    /\ Truthy(tasks[last.idx].timer_start_time)
    /\ get_current_session_time(tasks[last.idx], now) > 0
    /\ tasks[last.idx].actual_hours = last.hours

TimeOps == StartOps \cup StopOps \cup RestartOps \cup AddTimeOps \cup {"stop_all_timers"}

\* C13: a start, stop, restart or add_time call leaves actual_hours of every
\* record at least what it was, and never below zero.
C13_ActualHoursMonotone ==
    [][ last'.op \in TimeOps =>
            /\ Len(tasks') = Len(tasks)
            /\ \A i \in Records :
                /\ tasks'[i].actual_hours >= tasks[i].actual_hours
                /\ tasks'[i].actual_hours >= 0 ]_vars

\* a stop that books a second hour on top of an hour already booked
C13_Witness ==
    /\ last.op \in StopOps
    /\ last.idx # 0
    /\ last.hours > 0
    /\ tasks[last.idx].actual_hours > last.hours

\* C14: add_time(h) with h <= 0 and update_status(s) with s not one of the
\* four valid statuses return normally and change no field of any record,
\* updated_at included.
C14_RejectedMutationIsNoOp ==
    [][ /\ (last'.op = "add_time" /\ last'.hours <= 0) => tasks' = tasks
        /\ (last'.op = "update_status" /\ last'.arg \notin valid_statuses) => tasks' = tasks
      ]_vars

\* a refused status on a record that has hours booked and whose last change
\* was earlier than the call
C14_Witness ==
    /\ last.op = "update_status"
    /\ last.arg \notin valid_statuses
    /\ tasks[last.idx].actual_hours > 0
    /\ tasks[last.idx].updated_at # IsoFormat(now)

\* C15: update_status stamps completed_at with the present instant exactly
\* when the status changes from another value to Completed; every other
\* update_status call leaves completed_at as it was (so it is not cleared
\* when the status leaves Completed).
C15_CompletedAtStampedOnTransition ==
    [][ last'.op = "update_status" =>
            LET i == last'.idx IN
            IF last'.arg = "Completed" /\ tasks[i].status # "Completed"
            THEN tasks'[i].completed_at = Some(IsoFormat(now))
            ELSE tasks'[i].completed_at = tasks[i].completed_at ]_vars

\* C16: in every reachable state the status of each record is one of the four
\* valid statuses.
C16_StatusIsValid ==
    \A i \in Records : tasks[i].status \in valid_statuses

\* the fifteen attributes __init__ gives a record
Attributes == DataFields \cup {"timer_running", "timer_start_time"}

\* C17: update_task with the id of a record sets exactly the keyword arguments
\* that name an attribute of the record and ignores every other name, stamps
\* updated_at, saves and returns True, touching no other record; with an id no
\* record has it returns False and changes neither the records nor the file.
C17_UpdateAppliesKnownFields ==
    [][ last'.op = "update_task" =>
            IF last'.idx # 0
            THEN LET i == last'.idx
                     kwargs == last'.arg
                 IN  /\ last'.ok
                     /\ Len(tasks') = Len(tasks)
                     /\ \A j \in Records : j # i => tasks'[j] = tasks[j]
                     /\ DOMAIN tasks'[i] = DOMAIN tasks[i]
                     /\ \A f \in Attributes \ {"updated_at"} :
                            tasks'[i][f] = IF f \in DOMAIN kwargs THEN kwargs[f] ELSE tasks[i][f]
                     /\ tasks'[i].updated_at = IsoFormat(now)
                     /\ last'.wrote \in WriteOutcomes
                     /\ (last'.wrote = "ok" => disk' = Snapshot(tasks'))
            ELSE /\ ~last'.ok
                 /\ tasks' = tasks
                 /\ disk' = disk ]_vars

\* the calls after which the records are not the same objects at the same
\* positions: a delete shifts them and a load builds new ones
RepositioningOps == {"delete_task", "menu_delete", "load"}

\* C18: no call changes the id of a record that exists.
C18_IdNeverChanges ==
    [][ last'.op \notin RepositioningOps =>
            \A i \in Records : tasks'[i].id = tasks[i].id ]_vars

\* C19: delete_task with the id of a record removes that record and no other,
\* keeps the rest in their order, saves and returns True, and afterwards
\* get_task_by_id finds no record with the id; with an id no record has it
\* returns False and changes neither the records nor the file.
C19_DeleteRemovesTheRecord ==
    [][ last'.op = "delete_task" =>
            IF last'.idx # 0
            THEN LET i == last'.idx
                     task_id == tasks[i].id
                 IN  /\ last'.ok
                     /\ Len(tasks') = Len(tasks) - 1
                     /\ \A j \in 1..(i - 1) : tasks'[j] = tasks[j]
                     /\ \A j \in i..Len(tasks') : tasks'[j] = tasks[j + 1]
                     /\ last'.wrote \in WriteOutcomes
                     /\ (last'.wrote = "ok" => disk' = Snapshot(tasks'))
                     /\ get_task_by_id(tasks', task_id) = 0
            ELSE /\ ~last'.ok
                 /\ tasks' = tasks
                 /\ disk' = disk ]_vars

\* a data file that exists and is not a snapshot of records
Malformed(d) == d.kind # "absent" /\ LoadError(d) # "none"

\* C20: launching on a malformed or unreadable data file (unparsable text, a
\* record without a required key, a top level that is not a list of records,
\* a file that cannot be read) constructs the store, with no records.
C20_MalformedSnapshotGivesEmptyStore ==
    (last.op \in {"init", "load", "abort"} /\ Malformed(disk)) =>
        (last.op # "abort" /\ tasks = <<>>)

\* C21: a mutating call whose save fails returns normally with its change
\* made in memory and the file as it was, and the next mutating call whose
\* save succeeds leaves the file equal to the snapshot of everything in
\* memory, the change that was not saved included.
C21_FailedWriteKeepsMutation ==
    [][ last'.op \in MutatingOps =>
            /\ last'.wrote = "fail" =>
                /\ IF last'.op = "menu_start"
                   THEN /\ disk' \in {disk, Snapshot(stop_all_timers(tasks, now))}
                        /\ (last'.ok => tasks'[last'.idx].timer_running)
                   ELSE disk' = disk
                /\ last'.op = "menu_add" => Len(tasks') = Len(tasks) + 1
                /\ last'.op \in {"delete_task", "menu_delete"} => Len(tasks') = Len(tasks) - 1
                /\ last'.op = "menu_add_time" =>
                      tasks'[last'.idx].actual_hours = tasks[last'.idx].actual_hours + last'.hours
                /\ last'.op = "update_task" =>
                      tasks'[last'.idx].updated_at = IsoFormat(now)
                /\ last'.op = "menu_stop" => ~tasks'[last'.idx].timer_running \/ tasks' = tasks
            /\ (last'.wrote = "ok" /\ faults > 0) => disk' = Snapshot(tasks') ]_vars

\* on an empty store add_new_task("Fix") failed to save, and add_time_to_task,
\* whose save succeeded, then wrote the task and its hour
C21_Witness ==
    /\ steps = 2
    /\ faults = 1
    /\ last.op = "menu_add_time"
    /\ last.wrote = "ok"
    /\ Len(tasks) = 1
    /\ tasks[1].title = "Fix"
    /\ tasks[1].actual_hours = 1
    /\ disk = Snapshot(tasks)

\* a fraction num / den as a percentage between 0 and 100
InPercentRange(p) == p.den > 0 /\ 0 <= p.num /\ p.num <= 100 * p.den

\* the hours on the clock of records 1..n, running sessions included
RECURSIVE TotalHoursUpTo(_)
TotalHoursUpTo(n) ==
    IF n = 0 THEN 0 ELSE TotalHoursUpTo(n - 1) + get_total_time(tasks[n], now)

\* C22: get_statistics returns the number of records as total_tasks, the
\* number of records with timer_running as running_timers, the sum of
\* get_total_time() over the records as total_actual_hours, and
\* completed / total * 100 as completion_rate, which is 0 for the empty store
\* and lies in [0, 100].
C22_Statistics ==
    last.op = "view_statistics" =>
        LET stats == last.arg.stats
            completed == Cardinality({i \in Records : tasks[i].status = "Completed"})
        IN  /\ stats.total_tasks = Len(tasks)
            /\ stats.running_timers = Cardinality({i \in Records : tasks[i].timer_running})
            /\ stats.total_actual_hours = TotalHoursUpTo(Len(tasks))
            /\ stats.completion_rate.num * Len(tasks) = completed * 100 * stats.completion_rate.den
            /\ (tasks = <<>> => stats.completion_rate.num = 0)
            /\ InPercentRange(stats.completion_rate)

\* statistics of two records, one Completed, the other with an hour on a
\* running timer
C22_Witness ==
    /\ last.op = "view_statistics"
    /\ last.arg.stats.total_tasks = 2
    /\ last.arg.stats.completed_tasks = 1
    /\ last.arg.stats.running_timers = 1
    /\ last.arg.stats.total_actual_hours > tasks[1].actual_hours + tasks[2].actual_hours

\* C23: for a record with estimated_hours >= 0, get_progress_percentage() is 0
\* when estimated_hours is 0 and otherwise the smaller of 100 and
\* get_total_time() / estimated_hours * 100; it lies in [0, 100] with the
\* timer running or idle, also when the total exceeds the estimate.
C23_ProgressPercentage ==
    last.op = "view_all_tasks" =>
        \A i \in Records :
            LET t == tasks[i]
                p == last.arg[i].progress
                total == get_total_time(t, now)
            IN  t.estimated_hours >= 0 =>
                    /\ InPercentRange(p)
                    /\ t.estimated_hours = 0 => p.num = 0
                    /\ (t.estimated_hours > 0 /\ total <= t.estimated_hours) =>
                            p.num * t.estimated_hours = total * 100 * p.den
                    /\ (t.estimated_hours > 0 /\ total > t.estimated_hours) =>
                            p.num = 100 * p.den

\* a record shown with more hours on the clock than estimated
C23_Witness ==
    /\ last.op = "view_all_tasks"
    /\ \E i \in Records :
        /\ tasks[i].estimated_hours > 0
        /\ get_total_time(tasks[i], now) > tasks[i].estimated_hours
        /\ last.arg[i].progress.num = 100 * last.arg[i].progress.den

\* C24: when only the menu drives the program (start, stop and restart timer,
\* exit and relaunch, in any order), at most one record has timer_running true.
C24_AtMostOneTimerRuns ==
    Cardinality({i \in Records : tasks[i].timer_running}) <= 1

\* the hours of a record that no timer session accounts for
Unclocked(t) == t.actual_hours - t.session_time

\* C25: actual_hours - session_time of a record is the sum of the hours given
\* to add_time: it starts at 0, grows by h at add_time(h) with h > 0, is left
\* alone by start, stop and restart, goes unchanged into the snapshot and
\* comes back unchanged from it; so session_time never exceeds actual_hours.
C25_ManualHoursAccount ==
    [][ /\ last'.op \in TimeOps =>
            /\ Len(tasks') = Len(tasks)
            /\ \A i \in Records :
                Unclocked(tasks'[i]) = Unclocked(tasks[i]) +
                    (IF last'.op \in AddTimeOps /\ last'.idx = i /\ last'.hours > 0
                     THEN last'.hours ELSE 0)
        /\ last'.op = "menu_add" /\ last'.idx # 0 => Unclocked(tasks'[last'.idx]) = 0
        /\ last'.op = "load" =>
            \A i \in 1..Len(tasks') :
                Unclocked(tasks'[i]) = disk.data[i].actual_hours - disk.data[i].session_time
        /\ last'.wrote = "ok" =>
            \A i \in 1..Len(tasks') :
                disk'.data[i].actual_hours - disk'.data[i].session_time = Unclocked(tasks'[i])
        /\ \A i \in 1..Len(tasks') : tasks'[i].session_time <= tasks'[i].actual_hours ]_vars

\* an hour added by hand and an hour clocked by a timer, stopped and saved
C25_Witness ==
    /\ last.op = "menu_stop"
    /\ last.wrote = "ok"
    /\ last.hours > 0
    /\ tasks[last.idx].session_time = last.hours
    /\ Unclocked(tasks[last.idx]) > 0
    /\ disk = Snapshot(tasks)

\* C26: in the project breakdown of view_statistics the task counts of the
\* listed projects add up to the number of tasks: every task is counted under
\* exactly one project, also when project names differ only in letter case.
C26_BreakdownCountsEachTaskOnce ==
    last.op = "view_statistics" =>
        LET breakdown == last.arg.breakdown IN
        sum([n \in 1..Len(breakdown) |-> breakdown[n].count]) = Len(tasks)

====
